---------------------------- MODULE Spec2Model ----------------------------
(***************************************************************************)
(* The benchmark comparison scripts of hexaglue-benchmarks:                *)
(*   scripts/generate-report.py  (Markdown report, budget, regression gate)*)
(*   scripts/parse-results.py    (plain-text comparison table)             *)
(*                                                                         *)
(* Numbers.  JMH scores are modelled as integers.  A percentage difference *)
(* (a Python float) is an exact fraction num/den with den > 0, or positive *)
(* infinity; every comparison of the code (<=, >, max) is done on the      *)
(* fraction by cross-multiplication.  A JSON value is tagged with its type *)
(* so that a non-numeric score can be told from a number; the float NaN,   *)
(* which json.load reads from the literal NaN, is a number of its own kind.*)
(* For integer scores up to 60 in absolute value the IEEE double result of *)
(* ((v3 - v2) / v2) * 100 lies on the same side of -5, 10, 20, 25, 30 and  *)
(* of the other thresholds used below as the exact fraction does.          *)
(* Strings.  A dotted benchmark identifier is the sequence of its          *)
(* dot-separated segments.                                                 *)
(***************************************************************************)
EXTENDS Integers, Sequences, FiniteSets, TLC

VARIABLES
    v2_file,      \* content of the baseline results file: a sequence of JSON entries
    v3_file,      \* content of the candidate results file
    script,       \* which script runs: "none", "generate-report", "parse-results"
    pc,           \* position of the run: "start", "loaded", "done", "raised"
    v2_results,   \* parse_results(v2_file), once loaded
    v3_results,   \* parse_results(v3_file), once loaded
    rows,         \* generate-report: the four result tables, bench -> row
    diffs,        \* generate-report: the dict diffs of main()
    budget,       \* generate-report: the rows of the time budget table, size -> row
    gate,         \* generate-report: the rows of the regression table, size -> row
    table,        \* parse-results: the comparison rows printed, in print order
    stdout,       \* what the run has printed, as tags: "report", or "banner",
                  \* "category", "row", "legend"
    call          \* a direct call of one function: its name, arguments and result

vars == <<v2_file, v3_file, script, pc, v2_results, v3_results, rows, diffs,
          budget, gate, table, stdout, call>>

-----------------------------------------------------------------------------
(* JSON values and floats *)

Num(n) == [type |-> "number", val |-> n]
Str    == [type |-> "string", val |-> 0]
NaNScore == [type |-> "NaN", val |-> 0]
IsNaN(v) == v.type = "NaN"
\* int or float, NaN included
IsNum(v) == v.type \in {"number", "NaN"}

\* A float that is a percentage: a finite fraction, +inf or NaN, or Python's
\* None.
Fin(n, d) == [kind |-> "fin", num |-> n, den |-> d]
Inf       == [kind |-> "inf", num |-> 1, den |-> 1]
NaN       == [kind |-> "nan", num |-> 0, den |-> 1]
None      == [kind |-> "None", num |-> 0, den |-> 1]
IsFinite(x) == x.kind = "fin"

\* x <= n for a float x and an integer n: false for inf and for NaN
LeInt(x, n) == x.kind = "fin" /\ x.num <= n * x.den
\* x <= y for two floats: false when either is NaN
LeFloat(x, y) ==
    \/ x.kind \in {"fin", "inf"} /\ y.kind = "inf"
    \/ x.kind = "fin" /\ y.kind = "fin" /\ x.num * y.den <= y.num * x.den
\* x > y for two floats: false when either is NaN
GtFloat(x, y) == x.kind # "nan" /\ y.kind # "nan" /\ ~LeFloat(x, y)
\* Python's max(a, b): b only when b > a
PyMax(a, b) == IF GtFloat(b, a) THEN b ELSE a

-----------------------------------------------------------------------------
(* The benchmark names the scripts use *)

Sizes == <<"Small", "Medium", "Large">>
SizeSet == {Sizes[i] : i \in 1..Len(Sizes)}

ParseBenches    == <<"parseSmall", "parseMedium", "parseLarge">>
GraphBenches    == <<"buildGraphSmall", "buildGraphMedium", "buildGraphLarge">>
ClassifyBenches == <<"classifySmall", "classifyMedium", "classifyLarge">>
AnalyzeBenches  == <<"analyzeSmall", "analyzeMedium", "analyzeLarge">>

SizeIndex(size) == CHOOSE i \in 1..Len(Sizes) : Sizes[i] = size
\* f'parse{size}', f'buildGraph{size}', f'classify{size}', f'analyze{size}'
ParseKey(size)    == ParseBenches[SizeIndex(size)]
GraphKey(size)    == GraphBenches[SizeIndex(size)]
ClassifyKey(size) == ClassifyBenches[SizeIndex(size)]
AnalyzeKey(size)  == AnalyzeBenches[SizeIndex(size)]

Range(s) == {s[i] : i \in 1..Len(s)}
ReportBenches ==
    Range(ParseBenches) \cup Range(GraphBenches) \cup Range(ClassifyBenches)
        \cup Range(AnalyzeBenches)
DiffBenches ==
    Range(ParseBenches) \cup Range(GraphBenches) \cup Range(ClassifyBenches)

-----------------------------------------------------------------------------
(* parse_results: a dict is its keys in insertion order and its values *)

EmptyDict == [keys |-> <<>>, val |-> <<>>]
Has(d, k) == k \in Range(d.keys)
Get(d, k) == d.val[CHOOSE i \in 1..Len(d.keys) : d.keys[i] = k]
\* d[k] = v: a new key is appended, an old key keeps its place
SetItem(d, k, v) ==
    IF Has(d, k)
    THEN [d EXCEPT !.val[CHOOSE i \in 1..Len(d.keys) : d.keys[i] = k] = v]
    ELSE [keys |-> Append(d.keys, k), val |-> Append(d.val, v)]

\* entry['benchmark'].split('.')[-1]
LastSegment(benchmark) == benchmark[Len(benchmark)]

\* entry['benchmark'], entry['primaryMetric']['score'] and
\* entry['primaryMetric']['scoreError'] all exist (else KeyError)
EntryHasKeys(entry) ==
    /\ "benchmark" \in DOMAIN entry
    /\ "primaryMetric" \in DOMAIN entry
    /\ "score" \in DOMAIN entry.primaryMetric
    /\ "scoreError" \in DOMAIN entry.primaryMetric

RECURSIVE ParseLoop(_, _, _)
ParseLoop(data, i, results) ==
    IF i > Len(data) THEN [raised |-> FALSE, results |-> results]
    ELSE IF ~EntryHasKeys(data[i]) THEN [raised |-> TRUE, results |-> EmptyDict]
    ELSE ParseLoop(data, i + 1,
            SetItem(results, LastSegment(data[i].benchmark),
                    [score |-> data[i].primaryMetric.score,
                     error |-> data[i].primaryMetric.scoreError]))

ParseResults(data) == ParseLoop(data, 1, EmptyDict)

-----------------------------------------------------------------------------
(* get_diff, get_status, format_benchmark_row *)

\* ((v3 - v2) / v2) * 100 as a fraction with a positive denominator; NaN
\* when either score is NaN
Percent(v2_score, v3_score) ==
    IF IsNaN(v2_score) \/ IsNaN(v3_score) THEN NaN
    ELSE IF v2_score.val > 0
    THEN Fin((v3_score.val - v2_score.val) * 100, v2_score.val)
    ELSE Fin((v2_score.val - v3_score.val) * 100, 0 - v2_score.val)

\* get_diff without the test for a baseline of 0
GetDiff_NoGuard(v2_score, v3_score) == Percent(v2_score, v3_score)

\* get_diff with the two scores of the difference exchanged
GetDiff_Reversed(v2_score, v3_score) ==
    IF v2_score = Num(0) THEN Inf ELSE Percent(v3_score, v2_score)

GetDiff(v2_score, v3_score) ==
    IF v2_score = Num(0) THEN Inf ELSE Percent(v2_score, v3_score)

DefaultThreshold == 20

\* get_status with the OK band closed one percent early
GetStatus_EarlyOk(diff, threshold) ==
    IF LeInt(diff, -5) THEN "IMPROVED"
    ELSE IF LeInt(diff, threshold - 1) THEN "OK"
    ELSE IF LeInt(diff, threshold + 10) THEN "WARN"
    ELSE "REGRESSION"

GetStatus(diff, threshold) ==
    IF LeInt(diff, -5) THEN "IMPROVED"
    ELSE IF LeInt(diff, threshold) THEN "OK"
    ELSE IF LeInt(diff, threshold + 10) THEN "WARN"
    ELSE "REGRESSION"

\* A table cell that shows "N/A"
NAScore == [type |-> "N/A", val |-> 0]
NADiff  == [kind |-> "N/A", num |-> 0, den |-> 1]
RaisedRow(bench) ==
    [raised |-> TRUE, bench |-> bench, v2 |-> NAScore, v3 |-> NAScore,
     diff |-> NADiff, status |-> "raised"]
Row(bench, v2, v3, diff, status) ==
    [raised |-> FALSE, bench |-> bench, v2 |-> v2, v3 |-> v3,
     diff |-> diff, status |-> status]

\* format_benchmark_row with the test of the second branch on the wrong set:
\* a benchmark of the baseline only falls through to the placeholder row
FormatBenchmarkRow_WrongBranch(bench, v2r, v3r, threshold) ==
    IF Has(v2r, bench) /\ Has(v3r, bench) /\ IsNum(Get(v2r, bench).score)
            /\ IsNum(Get(v3r, bench).score)
    THEN LET diff == GetDiff(Get(v2r, bench).score, Get(v3r, bench).score)
         IN  Row(bench, Get(v2r, bench).score, Get(v3r, bench).score, diff,
                 GetStatus(diff, threshold))
    ELSE IF Has(v3r, bench) /\ ~Has(v2r, bench) /\ IsNum(Get(v3r, bench).score)
    THEN Row(bench, NAScore, Get(v3r, bench).score, NADiff, "NEW")
    ELSE IF Has(v2r, bench) \/ Has(v3r, bench) THEN RaisedRow(bench)
    ELSE Row(bench, NAScore, NAScore, NADiff, "-")

\* A score that is not a number cannot be subtracted, nor formatted with
\* :.2f (TypeError, ValueError): the row raises.
FormatBenchmarkRow(bench, v2r, v3r, threshold) ==
    LET v2_exists == Has(v2r, bench)
        v3_exists == Has(v3r, bench)
    IN  IF v2_exists /\ v3_exists THEN
            LET v2 == Get(v2r, bench).score
                v3 == Get(v3r, bench).score
            IN  IF ~(IsNum(v2) /\ IsNum(v3)) THEN RaisedRow(bench)
                ELSE LET diff == GetDiff(v2, v3)
                     IN  Row(bench, v2, v3, diff, GetStatus(diff, threshold))
        ELSE IF v3_exists THEN
            LET v3 == Get(v3r, bench).score
            IN  IF ~IsNum(v3) THEN RaisedRow(bench)
                ELSE Row(bench, NAScore, v3, NADiff, "NEW")
        ELSE IF v2_exists THEN
            LET v2 == Get(v2r, bench).score
            IN  IF ~IsNum(v2) THEN RaisedRow(bench)
                ELSE Row(bench, v2, NAScore, NADiff, "REMOVED")
        ELSE Row(bench, NAScore, NAScore, NADiff, "-")

-----------------------------------------------------------------------------
(* generate-report.py, main(): the part after the four tables *)

\* diffs[bench]: get_diff when the bench is in both sets, else None
CalcDiffs(v2r, v3r) ==
    [bench \in DiffBenches |->
        IF Has(v2r, bench) /\ Has(v3r, bench)
        THEN GetDiff(Get(v2r, bench).score, Get(v3r, bench).score)
        ELSE None]

\* v3_results.get(key, {}).get('score', 0)
ScoreOrZero(v3r, key) == IF Has(v3r, key) THEN Get(v3r, key).score.val ELSE 0

SizeTypes == <<50, 196, 540>>

\* The share without the factor 100
Pct_NoScale(val, total) == IF total > 0 THEN Fin(val, total) ELSE Fin(0, 1)

\* (val / total * 100) if total > 0 else 0
Pct(val, total) == IF total > 0 THEN Fin(val * 100, total) ELSE Fin(0, 1)

\* if analyze_key in v3_results and v3_results[analyze_key]['score'] > 0
HasBudgetRow(v3r, size) ==
    /\ Has(v3r, AnalyzeKey(size))
    /\ ~IsNaN(Get(v3r, AnalyzeKey(size)).score)
    /\ Get(v3r, AnalyzeKey(size)).score.val > 0

BudgetRow(v3r, size) ==
    LET total        == Get(v3r, AnalyzeKey(size)).score.val
        parse_val    == ScoreOrZero(v3r, ParseKey(size))
        graph_val    == ScoreOrZero(v3r, GraphKey(size))
        classify_val == ScoreOrZero(v3r, ClassifyKey(size))
    IN  [size |-> size, types |-> SizeTypes[SizeIndex(size)],
         parse_val |-> parse_val, parse_pct |-> Pct(parse_val, total),
         graph_val |-> graph_val, graph_pct |-> Pct(graph_val, total),
         classify_val |-> classify_val, classify_pct |-> Pct(classify_val, total),
         total |-> total]

\* The rows appended to the time budget table, in the order of the loop
RECURSIVE BudgetLoop(_, _)
BudgetLoop(v3r, i) ==
    IF i > Len(Sizes) THEN <<>>
    ELSE (IF HasBudgetRow(v3r, Sizes[i]) THEN <<BudgetRow(v3r, Sizes[i])>> ELSE <<>>)
            \o BudgetLoop(v3r, i + 1)

TimeBudget(v3r) == BudgetLoop(v3r, 1)

GateThresholds == <<20, 25, 30>>

\* x or 0: None and 0.0 are falsy
OrZero(x) ==
    IF x.kind = "None" \/ (x.kind = "fin" /\ x.num = 0) THEN Fin(0, 1) ELSE x

\* The gate with a strict test: a delta equal to the threshold fails
GateRow_StrictPass(size, threshold, ds) ==
    IF ds[ParseKey(size)].kind = "None"
    THEN [size |-> size, threshold |-> threshold,
          parse_diff |-> NADiff, classify_diff |-> NADiff, status |-> "BASELINE"]
    ELSE LET max_diff == PyMax(ds[ParseKey(size)], OrZero(ds[ClassifyKey(size)]))
         IN  [size |-> size, threshold |-> threshold,
              parse_diff |-> ds[ParseKey(size)],
              classify_diff |-> OrZero(ds[ClassifyKey(size)]),
              status |-> IF max_diff.kind = "fin"
                                /\ max_diff.num < threshold * max_diff.den
                         THEN "PASS" ELSE "FAIL"]

\* The gate over all three phases of the corpus: the graph delta counts too
GateRow_AllPhases(size, threshold, ds) ==
    IF ds[ParseKey(size)].kind = "None"
    THEN [size |-> size, threshold |-> threshold,
          parse_diff |-> NADiff, classify_diff |-> NADiff, status |-> "BASELINE"]
    ELSE LET max_diff == PyMax(PyMax(ds[ParseKey(size)], OrZero(ds[ClassifyKey(size)])),
                               OrZero(ds[GraphKey(size)]))
         IN  [size |-> size, threshold |-> threshold,
              parse_diff |-> ds[ParseKey(size)],
              classify_diff |-> OrZero(ds[ClassifyKey(size)]),
              status |-> IF LeInt(max_diff, threshold) THEN "PASS" ELSE "FAIL"]

GateRow(size, threshold, ds) ==
    LET parse_key    == ParseKey(size)
        classify_key == ClassifyKey(size)
    IN  IF parse_key \in DOMAIN ds /\ ds[parse_key].kind # "None" THEN
            LET parse_diff    == ds[parse_key]
                classify_diff == OrZero(IF classify_key \in DOMAIN ds
                                        THEN ds[classify_key] ELSE Fin(0, 1))
                max_diff      == PyMax(parse_diff, classify_diff)
            IN  [size |-> size, threshold |-> threshold,
                 parse_diff |-> parse_diff, classify_diff |-> classify_diff,
                 status |-> IF LeInt(max_diff, threshold) THEN "PASS" ELSE "FAIL"]
        ELSE [size |-> size, threshold |-> threshold,
              parse_diff |-> NADiff, classify_diff |-> NADiff,
              status |-> "BASELINE"]

RegressionThresholds(ds) ==
    [size \in SizeSet |-> GateRow(size, GateThresholds[SizeIndex(size)], ds)]

-----------------------------------------------------------------------------
(* parse-results.py *)

RECURSIVE PR_ParseLoop(_, _, _)
PR_ParseLoop(data, i, results) ==
    IF i > Len(data) THEN [raised |-> FALSE, results |-> results]
    ELSE IF ~EntryHasKeys(data[i]) THEN [raised |-> TRUE, results |-> EmptyDict]
    ELSE PR_ParseLoop(data, i + 1,
            SetItem(results, LastSegment(data[i].benchmark),
                    [score |-> data[i].primaryMetric.score,
                     error |-> data[i].primaryMetric.scoreError]))

PR_ParseResults(data) == PR_ParseLoop(data, 1, EmptyDict)

\* The substring tests on key.lower(), on the names of the model
Category(key) ==
    IF key \in Range(ParseBenches) THEN "Parsing"
    ELSE IF key \in Range(GraphBenches) THEN "Graph Building"
    ELSE IF key \in Range(ClassifyBenches) THEN "Classification"
    ELSE IF key \in Range(AnalyzeBenches) THEN "End-to-End"
    ELSE "Other"

\* categories.items(): the categories in the order their first key was met
RECURSIVE CategoryOrder(_, _, _)
CategoryOrder(keys, i, cats) ==
    IF i > Len(keys) THEN cats
    ELSE CategoryOrder(keys, i + 1,
            IF Category(keys[i]) \in Range(cats) THEN cats
            ELSE Append(cats, Category(keys[i])))

\* Python's order of the strings of the model: within a category the names
\* differ in the size suffix, and "Large" < "Medium" < "Small"
SortRank(key) ==
    IF key \in {b[3] : b \in {ParseBenches, GraphBenches, ClassifyBenches, AnalyzeBenches}}
    THEN 1
    ELSE IF key \in {b[2] : b \in {ParseBenches, GraphBenches, ClassifyBenches, AnalyzeBenches}}
    THEN 2
    ELSE IF key \in {b[1] : b \in {ParseBenches, GraphBenches, ClassifyBenches, AnalyzeBenches}}
    THEN 3
    ELSE 0

\* sorted(benchmarks)
RECURSIVE Sorted(_)
Sorted(S) ==
    IF S = {} THEN <<>>
    ELSE LET m == CHOOSE k \in S : \A o \in S : SortRank(k) <= SortRank(o)
         IN  <<m>> \o Sorted(S \ {m})

\* What the two loops visit, in order: a category (its heading is printed),
\* then its benchmarks
RECURSIVE PrintOrder(_, _, _)
PrintOrder(keys, cats, i) ==
    IF i > Len(cats) THEN <<>>
    ELSE LET benches == Sorted({k \in Range(keys) : Category(k) = cats[i]})
         IN  <<[kind |-> "category", name |-> cats[i]]>>
                \o [j \in 1..Len(benches) |-> [kind |-> "bench", name |-> benches[j]]]
                \o PrintOrder(keys, cats, i + 1)

\* The bands written out in main(), after diff = ((v3 - v2) / v2) * 100
InlineStatus(diff) ==
    IF LeInt(diff, -5) THEN "IMPROVED"
    ELSE IF LeInt(diff, 10) THEN "OK"
    ELSE IF LeInt(diff, 20) THEN "WARN"
    ELSE "REGRESSION"

\* One pass of the inner loop body: "skip" (not in both sets), "raise"
\* (TypeError on a score that is no number, ZeroDivisionError on a baseline
\* of 0) or the row printed
CompareBench(bench, v2r, v3r) ==
    IF ~(Has(v2r, bench) /\ Has(v3r, bench)) THEN [what |-> "skip", row |-> RaisedRow(bench)]
    ELSE LET v2_score == Get(v2r, bench).score
             v3_score == Get(v3r, bench).score
         IN  IF ~(IsNum(v2_score) /\ IsNum(v3_score)) \/ v2_score = Num(0)
             THEN [what |-> "raise", row |-> RaisedRow(bench)]
             ELSE LET diff == Percent(v2_score, v3_score)
                  IN  [what |-> "print",
                       row |-> Row(bench, v2_score, v3_score, diff, InlineStatus(diff))]

\* The two loops, to their end or to the first exception: the rows printed
\* and everything printed, as tags
RECURSIVE CompareLoop(_, _, _, _, _, _)
CompareLoop(order, i, v2r, v3r, printed, out) ==
    IF i > Len(order) THEN [raised |-> FALSE, printed |-> printed, out |-> out]
    ELSE IF order[i].kind = "category"
    THEN CompareLoop(order, i + 1, v2r, v3r, printed, Append(out, "category"))
    ELSE LET r == CompareBench(order[i].name, v2r, v3r)
         IN  IF r.what = "raise"
             THEN [raised |-> TRUE, printed |-> printed, out |-> out]
             ELSE IF r.what = "print"
             THEN CompareLoop(order, i + 1, v2r, v3r, Append(printed, r.row),
                              Append(out, "row"))
             ELSE CompareLoop(order, i + 1, v2r, v3r, printed, out)

Compare(v2r, v3r) ==
    CompareLoop(PrintOrder(v2r.keys, CategoryOrder(v2r.keys, 1, <<>>), 1), 1,
                v2r, v3r, <<>>, <<>>)

-----------------------------------------------------------------------------
(* The inputs of a run: two JMH result files *)

\* How far above the gate threshold of its corpus a candidate score goes
MaxOver == 1
\* The largest absolute score and the largest absolute percentage of a
\* direct call
MaxFnScore == 25
MaxFnDelta == 45

Qualified(name) == <<"io", "hexaglue", "benchmarks", "HexaGlueBenchmark", name>>
Entry(name, score) ==
    [benchmark |-> Qualified(name),
     primaryMetric |-> [score |-> score, scoreError |-> Num(1)]]

\* A slot of a file: no entry, or one entry for the name with one of the scores
Slot(name, scores) == {<<>>} \cup {<<Entry(name, Num(n))>> : n \in scores}

\* Candidate scores against a baseline of 20: 5% faster, exactly the gate
\* threshold of the corpus slower, and up to MaxOver above that
CandidateScores(size) ==
    {19} \cup {20 + (GateThresholds[SizeIndex(size)] \div 5) + k : k \in 0..MaxOver}

OtherSize(size) == Sizes[(SizeIndex(size) % Len(Sizes)) + 1]

BaselineFiles(size) ==
    {p \o g \o c \o a \o x :
        p \in Slot(ParseKey(size), {0, 20}),
        g \in Slot(GraphKey(size), {20}),
        c \in Slot(ClassifyKey(size), {0, 20}),
        a \in Slot(AnalyzeKey(size), {20}),
        x \in Slot("warmup", {20})}

CandidateFiles(size) ==
    {p \o g \o c \o a \o x :
        p \in Slot(ParseKey(size), CandidateScores(size)),
        g \in Slot(GraphKey(size), {30}),
        c \in Slot(ClassifyKey(size), CandidateScores(size)),
        a \in Slot(AnalyzeKey(size), {0, 40}),
        x \in Slot(ParseKey(OtherSize(size)), {40})}

\* Entries that lack a required field, or carry a score that is no number
MalformedEntries(name) ==
    { [primaryMetric |-> [score |-> Num(20), scoreError |-> Num(1)]],
      [benchmark |-> Qualified(name)],
      [benchmark |-> Qualified(name), primaryMetric |-> [scoreError |-> Num(1)]],
      [benchmark |-> Qualified(name), primaryMetric |-> [score |-> Num(20)]],
      Entry(name, Str) }

\* Small files with one malformed entry, in either file, for a benchmark of
\* the report or for another one
MalformedInputs(size) ==
    LET small2 == {p \o x : p \in Slot(ParseKey(size), {0, 20}), x \in Slot("warmup", {20})}
        small3 == {p \o x : p \in Slot(ParseKey(size), {19}), x \in Slot("warmup", {20})}
        bad    == {<<m>> : m \in MalformedEntries(ParseKey(size)) \cup MalformedEntries("warmup")}
    IN  {<<f2 \o b, f3>> : f2 \in small2, f3 \in small3, b \in bad}
            \cup {<<f2, f3 \o b>> : f2 \in small2, f3 \in small3, b \in bad}
            \cup {<<b \o f2, f3>> : f2 \in small2, f3 \in small3, b \in bad}

\* Files in which the candidate score of a gate benchmark may be NaN; they
\* carry no end-to-end benchmark, so the time budget sees integers only
NaNInputs(size) ==
    LET nan(name) == {<<Entry(name, NaNScore)>>}
    IN  {<<p2 \o c2, p3 \o c3>> :
            p2 \in Slot(ParseKey(size), {20}),
            c2 \in Slot(ClassifyKey(size), {20}),
            p3 \in Slot(ParseKey(size), CandidateScores(size)) \cup nan(ParseKey(size)),
            c3 \in Slot(ClassifyKey(size), {19}) \cup nan(ClassifyKey(size))}

Inputs ==
    UNION {(BaselineFiles(size) \X CandidateFiles(size)) \cup MalformedInputs(size)
                \cup NaNInputs(size) : size \in SizeSet}

NoCall ==
    [fn |-> "none", v2 |-> NAScore, v3 |-> NAScore, threshold |-> 0,
     diff |-> NADiff, status |-> "", raised |-> FALSE]

Idle ==
    /\ script = "none"
    /\ pc = "start"
    /\ v2_results = EmptyDict
    /\ v3_results = EmptyDict
    /\ rows = <<>>
    /\ diffs = <<>>
    /\ budget = <<>>
    /\ gate = <<>>
    /\ table = <<>>
    /\ stdout = <<>>
    /\ call = NoCall

Init ==
    /\ \E in \in Inputs : v2_file = in[1] /\ v3_file = in[2]
    /\ Idle

-----------------------------------------------------------------------------
(* A run of generate-report.py *)

\* main(), lines 82-84: both files are parsed before anything else
GenerateReportLoad ==
    /\ pc = "start"
    /\ script' = "generate-report"
    /\ LET r2 == ParseResults(v2_file)
           r3 == ParseResults(v3_file)
       IN  IF r2.raised \/ r3.raised
           THEN /\ pc' = "raised"
                /\ UNCHANGED <<v2_results, v3_results>>
           ELSE /\ pc' = "loaded"
                /\ v2_results' = r2.results
                /\ v3_results' = r3.results
    /\ UNCHANGED <<v2_file, v3_file, rows, diffs, budget, gate, table, stdout, call>>

\* main(), lines 86-300: the report is built in a string and printed at the end
GenerateReportMain ==
    /\ pc = "loaded"
    /\ script = "generate-report"
    /\ LET rs == [bench \in ReportBenches |->
                    FormatBenchmarkRow(bench, v2_results, v3_results, DefaultThreshold)]
       IN  IF \E bench \in ReportBenches : rs[bench].raised
           THEN /\ pc' = "raised"
                /\ UNCHANGED <<rows, diffs, budget, gate, stdout>>
           ELSE /\ rows' = rs
                /\ diffs' = CalcDiffs(v2_results, v3_results)
                /\ budget' = TimeBudget(v3_results)
                /\ gate' = RegressionThresholds(diffs')
                /\ stdout' = <<"report">>
                /\ pc' = "done"
    /\ UNCHANGED <<v2_file, v3_file, script, v2_results, v3_results, table, call>>

-----------------------------------------------------------------------------
(* A run of parse-results.py *)

\* main(), lines 37-38
ParseResultsLoad ==
    /\ pc = "start"
    /\ script' = "parse-results"
    /\ LET r2 == PR_ParseResults(v2_file)
           r3 == PR_ParseResults(v3_file)
       IN  IF r2.raised \/ r3.raised
           THEN /\ pc' = "raised"
                /\ UNCHANGED <<v2_results, v3_results>>
           ELSE /\ pc' = "loaded"
                /\ v2_results' = r2.results
                /\ v3_results' = r3.results
    /\ UNCHANGED <<v2_file, v3_file, rows, diffs, budget, gate, table, stdout, call>>

\* main(), lines 40-87: the banner, the heading and the rows of every
\* category as they are computed, the legend
ParseResultsMain ==
    /\ pc = "loaded"
    /\ script = "parse-results"
    /\ LET r == Compare(v2_results, v3_results)
       IN  /\ table' = r.printed
           /\ IF r.raised
              THEN /\ pc' = "raised"
                   /\ stdout' = <<"banner">> \o r.out
              ELSE /\ pc' = "done"
                   /\ stdout' = <<"banner">> \o r.out \o <<"legend">>
    /\ UNCHANGED <<v2_file, v3_file, script, v2_results, v3_results, rows, diffs,
                   budget, gate, call>>

Next ==
    \/ GenerateReportLoad
    \/ GenerateReportMain
    \/ ParseResultsLoad
    \/ ParseResultsMain

Spec == Init /\ [][Next]_vars

-----------------------------------------------------------------------------
(* Direct calls of the functions, on arguments of any sign *)

FnScores == (0 - MaxFnScore)..MaxFnScore
FnThresholds == {-20, -5, 0, 10, 20, 35}
FnDiffs == {Fin(n, d) : n \in (0 - 2 * MaxFnDelta)..(2 * MaxFnDelta), d \in 1..2} \cup {Inf}

\* A metric set with at most the one benchmark
OneBench(bench, s) ==
    IF s = NAScore THEN EmptyDict
    ELSE SetItem(EmptyDict, bench, [score |-> s, error |-> Num(1)])
MaybeScore == {NAScore, NaNScore} \cup {Num(n) : n \in FnScores}

FnInit ==
    /\ v2_file = <<>>
    /\ v3_file = <<>>
    /\ Idle

CallGetDiff ==
    /\ call.fn = "none"
    /\ \E s2 \in MaybeScore \ {NAScore}, s3 \in MaybeScore \ {NAScore} :
          call' = [NoCall EXCEPT !.fn = "get_diff", !.v2 = s2, !.v3 = s3,
                                 !.diff = GetDiff(s2, s3)]
    /\ UNCHANGED <<v2_file, v3_file, script, pc, v2_results, v3_results, rows,
                   diffs, budget, gate, table, stdout>>

CallGetStatus ==
    /\ call.fn = "none"
    /\ \E d \in FnDiffs, t \in FnThresholds :
          call' = [NoCall EXCEPT !.fn = "get_status", !.diff = d, !.threshold = t,
                                 !.status = GetStatus(d, t)]
    /\ UNCHANGED <<v2_file, v3_file, script, pc, v2_results, v3_results, rows,
                   diffs, budget, gate, table, stdout>>

CallFormatBenchmarkRow ==
    /\ call.fn = "none"
    /\ \E s2 \in MaybeScore, s3 \in MaybeScore, t \in FnThresholds :
          LET r == FormatBenchmarkRow("parseSmall", OneBench("parseSmall", s2),
                                      OneBench("parseSmall", s3), t)
          IN  call' = [fn |-> "format_benchmark_row", v2 |-> s2, v3 |-> s3,
                       threshold |-> t, diff |-> r.diff, status |-> r.status,
                       raised |-> r.raised]
    /\ UNCHANGED <<v2_file, v3_file, script, pc, v2_results, v3_results, rows,
                   diffs, budget, gate, table, stdout>>

\* The body of the inner loop of parse-results.py, for one benchmark
CallCompareBench ==
    /\ call.fn = "none"
    /\ \E s2 \in MaybeScore, s3 \in MaybeScore :
          LET r == CompareBench("parseSmall", OneBench("parseSmall", s2),
                                OneBench("parseSmall", s3))
          IN  call' = [fn |-> "compare", v2 |-> s2, v3 |-> s3, threshold |-> 10,
                       diff |-> r.row.diff,
                       status |-> IF r.what = "print" THEN r.row.status ELSE r.what,
                       raised |-> r.what = "raise"]
    /\ UNCHANGED <<v2_file, v3_file, script, pc, v2_results, v3_results, rows,
                   diffs, budget, gate, table, stdout>>

FnNext ==
    \/ CallGetDiff
    \/ CallGetStatus
    \/ CallFormatBenchmarkRow
    \/ CallCompareBench

SpecFn == FnInit /\ [][FnNext]_vars

-----------------------------------------------------------------------------
(* What the claims speak of, read off the state *)

FourStatuses == {"IMPROVED", "OK", "WARN", "REGRESSION"}

ReportDone == script = "generate-report" /\ pc = "done"

InBoth(bench) == Has(v2_results, bench) /\ Has(v3_results, bench)
BaselineScore(bench) == Get(v2_results, bench).score.val
CandidateScore(bench) == Get(v3_results, bench).score.val

\* (c - b) / b * 100 > t, with a baseline of 0 counting as +infinity
ExceedsPct(b, c, t) ==
    \/ b = 0
    \/ b > 0 /\ (c - b) * 100 > t * b
    \/ b < 0 /\ (c - b) * 100 < t * b

\* The gate threshold of a corpus size, as the specification states it
ToleranceOf(size) ==
    CASE size = "Small" -> 20 [] size = "Medium" -> 25 [] size = "Large" -> 30

\* The band of the fraction n/d (d > 0) for the warn threshold t
BandOf(n, d, t) ==
    IF n <= (0 - 5) * d THEN "IMPROVED"
    ELSE IF n <= t * d THEN "OK"
    ELSE IF n <= (t + 10) * d THEN "WARN"
    ELSE "REGRESSION"

\* Every entry of the file has the required fields and a numeric score
WellFormed(data) ==
    \A i \in 1..Len(data) :
        EntryHasKeys(data[i]) /\ IsNum(data[i].primaryMetric.score)

-----------------------------------------------------------------------------
(* C1 *)

-----------------------------------------------------------------------------
(* C2 *)

\* The delta of the benchmark is present: it is in both sets and its delta
\* is not NaN
DeltaPresent(k) ==
    /\ InBoth(k)
    /\ \/ Get(v2_results, k).score = Num(0)
       \/ ~IsNaN(Get(v2_results, k).score) /\ ~IsNaN(Get(v3_results, k).score)

\* The designated benchmarks of a size whose delta is present
PresentDesignated(size) ==
    {k \in {ParseKey(size), ClassifyKey(size)} : DeltaPresent(k)}

\* C2: when the parse delta of a size is present, its verdict is FAIL exactly
\* when the largest present designated delta (parse, and classify if
\* present) is strictly above the tolerance of the size, else PASS.
C2_GateVerdict ==
    ReportDone =>
        \A size \in SizeSet :
            DeltaPresent(ParseKey(size)) =>
                gate[size].status =
                    IF \E k \in PresentDesignated(size) :
                          ExceedsPct(BaselineScore(k), CandidateScore(k), ToleranceOf(size))
                    THEN "FAIL" ELSE "PASS"

\* The tie: parse exactly at the tolerance, no classify delta, and a pass
C2_Witness ==
    /\ ReportDone
    /\ InBoth("parseMedium") /\ ~InBoth("classifyMedium")
    /\ BaselineScore("parseMedium") = 20 /\ CandidateScore("parseMedium") = 25
    /\ gate["Medium"].status = "PASS"

-----------------------------------------------------------------------------
(* C3 *)

\* C3: the verdict of a size is BASELINE if and only if neither its parse
\* delta nor its classify delta is present.
C3_BaselineIffNoDelta ==
    ReportDone =>
        \A size \in SizeSet :
            gate[size].status = "BASELINE" <=> PresentDesignated(size) = {}

-----------------------------------------------------------------------------
(* C4 *)

\* C4: format_benchmark_row never raises on metric sets with numeric scores,
\* and the row it gives is decided by where the name is present: in both
\* sets a delta and one of the four statuses, in the candidate only NEW, in
\* the baseline only REMOVED, in neither the placeholder status (printed as
\* "-"); a delta is there if and only if the name is in both sets.
C4_PresenceTotal ==
    script = "generate-report" =>
        /\ (WellFormed(v2_file) /\ WellFormed(v3_file)) => pc # "raised"
        /\ pc = "done" =>
              \A bench \in ReportBenches :
                  LET r  == rows[bench]
                      in2 == Has(v2_results, bench)
                      in3 == Has(v3_results, bench)
                  IN  /\ ~r.raised
                      /\ (in2 /\ in3) => r.status \in FourStatuses
                      /\ (~in2 /\ in3) => r.status = "NEW"
                      /\ (in2 /\ ~in3) => r.status = "REMOVED"
                      /\ (~in2 /\ ~in3) => r.status = "-"
                      /\ (r.diff # NADiff) <=> (in2 /\ in3)
                      /\ (r.diff # NADiff) => r.diff.kind \in {"fin", "inf", "nan"}

\* One report with all four cases
C4_Witness ==
    /\ ReportDone
    /\ \E a, b, c, d \in ReportBenches :
          /\ rows[a].status \in FourStatuses
          /\ rows[b].status = "NEW"
          /\ rows[c].status = "REMOVED"
          /\ rows[d].status = "-"

-----------------------------------------------------------------------------
(* C5 *)

\* C5: with a baseline score of 0 get_diff returns +infinity whatever the
\* candidate score, and format_benchmark_row gives such a benchmark the
\* status REGRESSION for every warn threshold, without raising.
C5_ZeroBaseline ==
    /\ (call.fn = "get_diff" /\ call.v2 = Num(0)) => call.diff = Inf
    /\ (call.fn = "format_benchmark_row" /\ call.v2 = Num(0) /\ call.v3 # NAScore) =>
          /\ ~call.raised
          /\ call.diff = Inf
          /\ call.status = "REGRESSION"

C5_Witness ==
    /\ call.fn = "format_benchmark_row"
    /\ call.v2 = Num(0)
    /\ call.v3 = Num(-3)
    /\ call.threshold = 35
    /\ call.status = "REGRESSION"

-----------------------------------------------------------------------------
(* C6 *)

\* Some benchmark is in both sets with a baseline score of 0
ZeroBaseline ==
    \E bench \in Range(v2_results.keys) :
        InBoth(bench) /\ Get(v2_results, bench).score = Num(0)

\* C6: a baseline score of 0 is no fault in either script: on well-formed
\* files with a benchmark of baseline 0 in both sets the run does not raise.
C6_ZeroBaselineNoFault ==
    (WellFormed(v2_file) /\ WellFormed(v3_file) /\ pc # "start" /\ ZeroBaseline)
        => pc # "raised"

-----------------------------------------------------------------------------
(* C7 *)

BudgetRowsOf(size) == {i \in 1..Len(budget) : budget[i].size = size}

\* C7: every corpus size has an entry in the time budget table, and the
\* entry of a size whose end-to-end score is 0 or missing shows 0% for the
\* three phases.
C7_BudgetEntryAlways ==
    ReportDone =>
        \A size \in SizeSet :
            /\ BudgetRowsOf(size) # {}
            /\ ~HasBudgetRow(v3_results, size) =>
                  \A i \in BudgetRowsOf(size) :
                      /\ budget[i].parse_pct.num = 0
                      /\ budget[i].graph_pct.num = 0
                      /\ budget[i].classify_pct.num = 0

-----------------------------------------------------------------------------
(* C8 *)

\* The score of a phase in the candidate set, 0 when the benchmark is absent
PhaseScore(key) == IF Has(v3_results, key) THEN CandidateScore(key) ELSE 0

\* pct = val / total * 100, as fractions
IsShare(pct, val, total) ==
    pct.kind = "fin" /\ pct.den > 0 /\ pct.num * total = val * 100 * pct.den

\* C8: a size whose end-to-end score is above 0 has one budget entry with
\* the three phases; the percentage of each phase is its own score over the
\* total times 100, and an absent phase shows score 0 and 0%.
C8_BudgetShares ==
    ReportDone =>
        \A size \in SizeSet :
            (Has(v3_results, AnalyzeKey(size)) /\ CandidateScore(AnalyzeKey(size)) > 0) =>
                /\ Cardinality(BudgetRowsOf(size)) = 1
                /\ \A i \in BudgetRowsOf(size) :
                      LET e     == budget[i]
                          total == CandidateScore(AnalyzeKey(size))
                      IN  /\ e.total = total
                          /\ e.parse_val = PhaseScore(ParseKey(size))
                          /\ e.graph_val = PhaseScore(GraphKey(size))
                          /\ e.classify_val = PhaseScore(ClassifyKey(size))
                          /\ IsShare(e.parse_pct, e.parse_val, total)
                          /\ IsShare(e.graph_pct, e.graph_val, total)
                          /\ IsShare(e.classify_pct, e.classify_val, total)

\* A total above 0 with the graph phase absent and the other two present
C8_Witness ==
    /\ ReportDone
    /\ Has(v3_results, "analyzeLarge") /\ ~Has(v3_results, "buildGraphLarge")
    /\ \E i \in BudgetRowsOf("Large") :
          /\ budget[i].graph_val = 0 /\ budget[i].graph_pct.num = 0
          /\ budget[i].parse_val = 27 /\ budget[i].parse_pct = Fin(2700, 40)
          /\ budget[i].classify_val = 19

-----------------------------------------------------------------------------
(* C9 *)

AllNames == Range(v2_results.keys) \cup Range(v3_results.keys)
InOneSetOnly(name) == Has(v2_results, name) # Has(v3_results, name)

\* The benchmark has a row in what the run printed, with this status
Rendered(name, status) ==
    \/ /\ script = "generate-report"
       /\ name \in DOMAIN rows
       /\ rows[name].status = status
    \/ /\ script = "parse-results"
       /\ \E i \in 1..Len(table) : table[i].bench = name /\ table[i].status = status

\* C9: in both scripts a benchmark that is in exactly one of the two sets
\* has its own row, NEW when only in the candidate, REMOVED when only in
\* the baseline.
C9_NoSilentOmission ==
    pc = "done" =>
        \A name \in AllNames :
            InOneSetOnly(name) =>
                Rendered(name, IF Has(v3_results, name) THEN "NEW" ELSE "REMOVED")

-----------------------------------------------------------------------------
(* C10 *)

Malformed == ~(WellFormed(v2_file) /\ WellFormed(v3_file))

\* C10: when a record of either file lacks a required field or has a score
\* that is no number, the run never completes, and it has printed no
\* comparison output (no row, no report) when it fails.
C10_MalformedIsFatal ==
    (Malformed /\ pc # "start") =>
        /\ pc # "done"
        /\ pc = "raised" => Range(stdout) \cap {"row", "report"} = {}

-----------------------------------------------------------------------------
(* C11 *)

\* The score of a benchmark in a metric set, N/A when it is not there
ScoreIn(results, k) == IF Has(results, k) THEN Get(results, k).score ELSE NAScore

\* The delta of the two scores is above t
ExceedsScore(s2, s3, t) ==
    \/ s2 = Num(0)
    \/ ~IsNaN(s2) /\ ~IsNaN(s3) /\ ExceedsPct(s2.val, s3.val, t)

\* The verdict as a function of four scores alone: the baseline and the
\* candidate score of the parse benchmark and of the classify benchmark
VerdictFrom(p2, p3, c2, c3, t) ==
    IF p2 = NAScore \/ p3 = NAScore THEN "BASELINE"
    ELSE IF (p2 # Num(0) /\ (IsNaN(p2) \/ IsNaN(p3))) \/ ExceedsScore(p2, p3, t)
    THEN "FAIL"
    ELSE IF c2 # NAScore /\ c3 # NAScore /\ ExceedsScore(c2, c3, t) THEN "FAIL"
    ELSE "PASS"

\* C11: the verdict of a corpus size is determined by the baseline and
\* candidate scores of parse<Size> and classify<Size> alone; the graph-build
\* and end-to-end benchmarks and the benchmarks of the other sizes have no
\* part in it.
C11_GateNarrow ==
    ReportDone =>
        \A size \in SizeSet :
            gate[size].status =
                VerdictFrom(ScoreIn(v2_results, ParseKey(size)),
                            ScoreIn(v3_results, ParseKey(size)),
                            ScoreIn(v2_results, ClassifyKey(size)),
                            ScoreIn(v3_results, ClassifyKey(size)),
                            ToleranceOf(size))

\* A pass while the graph-build and the end-to-end benchmark of the same
\* corpus regress and a benchmark of another size is in the candidate set
C11_Witness ==
    /\ ReportDone
    /\ gate["Small"].status = "PASS"
    /\ rows["buildGraphSmall"].status = "REGRESSION"
    /\ rows["analyzeSmall"].status = "REGRESSION"
    /\ Has(v3_results, "parseMedium")

-----------------------------------------------------------------------------
(* C12 *)

\* C12: get_diff(b, b) is 0 for b > 0, and for b # 0 get_diff(b, c) is
\* (c - b) / b * 100: above 0 when the candidate is above a positive
\* baseline, below 0 when it is below.
C12_DiffFormula ==
    (call.fn = "get_diff" /\ ~IsNaN(call.v2) /\ ~IsNaN(call.v3)) =>
        LET b == call.v2.val
            c == call.v3.val
            d == call.diff
        IN  /\ (b > 0 /\ c = b) => (d.kind = "fin" /\ d.num = 0)
            /\ b # 0 =>
                  /\ d.kind = "fin" /\ d.den > 0
                  /\ d.num * b = (c - b) * 100 * d.den
            /\ (b > 0 /\ c > b) => d.num > 0
            /\ (b > 0 /\ c < b) => d.num < 0

\* A negative baseline: get_diff(-4, 1) = -125
C12_Witness ==
    /\ call.fn = "get_diff"
    /\ call.v2 = Num(-4)
    /\ call.v3 = Num(1)
    /\ call.diff.num * 1 = -125 * call.diff.den

-----------------------------------------------------------------------------
(* C13 *)

\* C13: when the verdict of a size is PASS, neither its parse row nor its
\* classify row in the tables has the status REGRESSION.
C13_PassNoRegression ==
    ReportDone =>
        \A size \in SizeSet :
            gate[size].status = "PASS" =>
                /\ rows[ParseKey(size)].status # "REGRESSION"
                /\ rows[ClassifyKey(size)].status # "REGRESSION"

\* No entry of either file has the score NaN
NoNaNScore ==
    \A f \in {v2_file, v3_file} :
        \A i \in 1..Len(f) :
            EntryHasKeys(f[i]) => ~IsNaN(f[i].primaryMetric.score)

\* The statement of C13 on files without a NaN score, where it holds
C13_FiniteScores == NoNaNScore => C13_PassNoRegression

=============================================================================
